---- MODULE Spec2Model ----
(***************************************************************************)
(* Model of the market-analysis core of the repository:                    *)
(*   - LifelongLearningSystem (src/market_analysis/learning.py): the       *)
(*     bounded experience memory, its counters, pruning and replay,        *)
(*     learning from batches, the learning-rate adaptation, and knowledge  *)
(*     exported from one object and imported into another;                 *)
(*   - KnowledgeGraph (src/market_analysis/utils/sssp.py): the weighted    *)
(*     directed graph, Dijkstra distances and the priority list;           *)
(*   - MasterAgent (src/market_analysis/agents/master_agent.py): graph     *)
(*     construction from market data, prioritization, delegation,          *)
(*     aggregation and the analyze_market cycle.                           *)
(*                                                                         *)
(* Units.  Rewards are integers counting halves (reward 0.5 is 1), edge    *)
(* weights are integers counting halves (weight 0.5 is 1), timestamps are  *)
(* whole hours, priority thresholds are tenths.  Every float the code      *)
(* computes on these inputs is compared here by exact integer              *)
(* cross-multiplication.                                                   *)
(***************************************************************************)
EXTENDS Integers, Sequences, FiniteSets, TLC

VARIABLES
    \* ---- LifelongLearningSystem ----
    memory_capacity,          \* self.memory_capacity
    experience_memory,        \* self.experience_memory: Seq of experiences
    total_experiences,        \* performance_metrics['total_experiences']
    successful_predictions,   \* performance_metrics['successful_predictions']
    failed_predictions,       \* performance_metrics['failed_predictions']
    clock,                    \* the reading datetime.now() gives, in hours
    pruneCount,               \* number of _prune_memory passes run so far
    idLog,                    \* the ids store_experience assigned, in call order
    lastOp,                   \* the most recent call and its arguments
    returned,                 \* the value the most recent call returned
    \* ---- KnowledgeGraph / MasterAgent ----
    knowledge_graph,          \* the KnowledgeGraph: nodes, adjacency, node_metadata
    graphOps,                 \* add_node / add_edge calls made so far
    buildCount,               \* build_knowledge_graph calls made so far
    config,                   \* the config object master_agent.py imports
    insights_cache,           \* MasterAgent.insights_cache
    pc,                       \* where the MasterAgent is: "Idle" outside
                              \* analyze_market, else the step it is at
    frame,                    \* the locals of the running analyze_market call
    \* ---- several LifelongLearningSystem objects side by side ----
    systems,                  \* name -> the fields of that object
    metrics_objects,          \* the performance_metrics dicts, by reference
    calls                     \* calls made on these objects so far

memVars == <<memory_capacity, experience_memory, total_experiences,
             successful_predictions, failed_predictions, clock, pruneCount,
             idLog>>
graphVars == <<knowledge_graph, graphOps, buildCount>>

agentVars == <<config, insights_cache, pc, frame>>

instVars == <<systems, metrics_objects, calls>>

vars == <<memVars, graphVars, agentVars, instVars, lastOp, returned>>

----------------------------------------------------------------------------
(* Bounds of the model *)

MaxCap == 3        \* capacities 1..MaxCap, any reward, any clock advance
MaxStores == 5     \* store_experience calls per behaviour for these
ScenarioCap == 10  \* one larger capacity: reward 1.0 stored once an hour
ScenarioExtra == 2 \* stores beyond ScenarioCap in that scenario
MaxClock == 2      \* hours the clock may advance in a behaviour
MaxBatch == 3      \* batch_size arguments 0..MaxBatch (0 stands for None too)
ReplayBatchSize == 2   \* self.replay_batch_size of the modelled configuration

MaxGraphOps == 2   \* add_node / add_edge calls on a bare KnowledgeGraph
MaxBuilds == 1     \* build_knowledge_graph calls on a MasterAgent

\* rewards in halves: -1.0, 0, 0.5, 1.0
Rewards == {-2, 0, 1, 2}

\* arguments of the KnowledgeGraph calls: node ids, node types, weights in
\* halves (-0.5, 0, 0.5, 1.0), thresholds in tenths, max_nodes (<<>> is None)
ApiNodeIds == {"market_analysis", "stock_A", "news_0"}
ApiNodeTypes == {"root", "stock"}
ApiWeights == {-1, 0, 1, 2}
Thresholds == {0, 3, 7}
MaxNodesArgs == {<<>>, <<0>>, <<1>>, <<-1>>}

\* market data given to build_knowledge_graph: every combination of a
\* target, a stocks list, a news list and charts/videos lists below
Targets == {<<>>, <<"stock_A">>, <<"news_0">>}
StockLists ==
    { <<>>,
      <<[symbol |-> <<"A">>, weight |-> <<>>]>>,
      <<[symbol |-> <<"A">>, weight |-> <<4>>]>>,
      <<[symbol |-> <<"A">>, weight |-> <<-2>>]>>,
      <<[symbol |-> <<"A">>, weight |-> <<>>], [symbol |-> <<>>, weight |-> <<>>]>> }
NewsLists ==
    { <<>>,
      <<[weight |-> <<>>, related_stocks |-> <<>>]>>,
      <<[weight |-> <<>>, related_stocks |-> <<"A">>]>>,
      <<[weight |-> <<>>, related_stocks |-> <<"A">>],
        [weight |-> <<>>, related_stocks |-> <<"A">>]>>,
      <<[weight |-> <<1>>, related_stocks |-> <<"A", "B">>],
        [weight |-> <<>>, related_stocks |-> <<"A">>]>> }
ChartLists == { <<>>, <<[weight |-> <<>>]>> }
VideoLists == { <<>>, <<[weight |-> <<>>]>> }
MarketData ==
    [target : Targets, stocks : StockLists, news : NewsLists,
     charts : ChartLists, videos : VideoLists]

----------------------------------------------------------------------------
(* Generic helpers *)

Max(a, b) == IF a >= b THEN a ELSE b
Min(a, b) == IF a <= b THEN a ELSE b
Abs(a) == IF a >= 0 THEN a ELSE -a

\* list.sort(reverse=True, key=...) is stable: s sorted so that Gt-greater
\* elements come first and elements that compare equal keep their order.
\* gt[i, j] tells whether the key of s[i] is greater than that of s[j].
SortDescStable(s, gt) ==
    LET n == Len(s)
        rank(i) == 1 + Cardinality({j \in 1..n :
                        gt[j, i] \/ (~gt[i, j] /\ ~gt[j, i] /\ j < i)})
    IN  [k \in 1..n |-> s[CHOOSE i \in 1..n : rank(i) = k]]

\* s[:k]
Take(s, k) == SubSeq(s, 1, Min(Max(k, 0), Len(s)))
\* s[k:]
Drop(s, k) == SubSeq(s, Min(Max(k, 0), Len(s)) + 1, Len(s))

\* every sequence of k elements of s taken at k different positions
SamplesOf(s, k) ==
    { [m \in 1..k |-> s[f[m]]] :
        f \in { g \in [1..k -> DOMAIN s] :
                  \A a, b \in 1..k : a # b => g[a] # g[b] } }

----------------------------------------------------------------------------
(* LifelongLearningSystem *)

\* a reward of 0 counted as a success
IsSuccessNonNegative(reward) == reward >= 0

\* experience.get('reward', 0) > 0
IsSuccess(reward) == reward > 0

\* round() in place of int()
TargetSizeRounded(capacity) == (capacity * 8 + 5) \div 10

\* int(self.memory_capacity * 0.8); the float product truncates to
\* floor(4*capacity/5) for every capacity (checked up to 200000)
TargetSize(capacity) == (capacity * 4) \div 5

\* pruning one experience too late
OverCapacityOffByOne(mem, capacity) == Len(mem) > capacity + 1

\* len(self.experience_memory) > self.memory_capacity
OverCapacity(mem, capacity) == Len(mem) > capacity

\* _calculate_importance: reward_score*0.6 + recency_score*0.4 with
\* reward_score = |reward| and recency_score = 1/(1 + age in hours).
\* As a fraction with reward in halves: ImportanceNum / ImportanceDen
\*   = (6*|r|*(1+age) + 8) / (20*(1+age))
Age(exp, now) == now - exp.timestamp
ImportanceNum(exp, now) == 6 * Abs(exp.reward) * (1 + Age(exp, now)) + 8
ImportanceDen(exp, now) == 20 * (1 + Age(exp, now))
\* the newer experience ranked first, whatever the rewards
MoreRecent(a, b, now) == a.timestamp > b.timestamp

MoreImportant(a, b, now) ==
    ImportanceNum(a, now) * ImportanceDen(b, now)
        > ImportanceNum(b, now) * ImportanceDen(a, now)

\* _prune_memory: sort by importance, highest first, keep the first
\* target_size
PruneMemory(mem, capacity, now) ==
    Take(SortDescStable(mem,
            [i, j \in DOMAIN mem |-> MoreImportant(mem[i], mem[j], now)]),
         TargetSize(capacity))

\* experience['id'] = len(self.experience_memory)
NewId(mem) == Len(mem)

\* the experience as store_experience appends it; uid is the identity of
\* the dict object (the number of the call that stored it)
NewExperience(mem, reward, now, uid) ==
    [uid |-> uid, id |-> NewId(mem), reward |-> reward, timestamp |-> now]

\* store_experience(experience); datetime.now() has advanced by d hours
\* since the previous reading
StoreExperience(reward, d) ==
    /\ LET now == clock + d
           exp == NewExperience(experience_memory, reward, now,
                                total_experiences)
           appended == Append(experience_memory, exp)
       IN  /\ clock' = now
           /\ total_experiences' = total_experiences + 1
           /\ IF IsSuccess(reward)
              THEN /\ successful_predictions' = successful_predictions + 1
                   /\ failed_predictions' = failed_predictions
              ELSE /\ failed_predictions' = failed_predictions + 1
                   /\ successful_predictions' = successful_predictions
           /\ IF OverCapacity(appended, memory_capacity)
              THEN /\ experience_memory' =
                          PruneMemory(appended, memory_capacity, now)
                   /\ pruneCount' = pruneCount + 1
              ELSE /\ experience_memory' = appended
                   /\ pruneCount' = pruneCount
           /\ idLog' = Append(idLog, exp.id)
           /\ lastOp' = [op |-> "store", reward |-> reward]
           /\ returned' = <<>>
    /\ UNCHANGED <<memory_capacity, graphVars, agentVars, instVars>>

\* _priority_sampling: priority = i/len + max(0, reward) with i the 0-based
\* index; times 2*len, with reward in halves: 2*i + len*max(0, reward)
\* the recency score alone
PriorityKeyRecencyOnly(mem, i) == 2 * (i - 1)

PriorityKey(mem, i) == 2 * (i - 1) + Len(mem) * Max(0, mem[i].reward)

SortedByPriority(mem) ==
    SortDescStable(mem,
        [i, j \in DOMAIN mem |-> PriorityKey(mem, i) > PriorityKey(mem, j)])

\* sampling from the whole sorted list, the top half included
RandomPoolWhole(sorted, top_half) == sorted

\* experiences_with_priority[top_half:]
RandomPool(sorted, top_half) == Drop(sorted, top_half)

\* random.sample(random_pool, min(random_half, len(random_pool)))
RandomSample(pool, k) == SamplesOf(pool, Min(k, Len(pool)))

\* the lists _priority_sampling(size) can return
PrioritySampling(mem, size) ==
    IF Len(mem) <= size
    THEN {mem}
    ELSE LET sorted == SortedByPriority(mem)
             top_half == size \div 2
             random_half == size - top_half
         IN  { Take(sorted, top_half) \o r :
                 r \in RandomSample(RandomPool(sorted, top_half), random_half) }

\* size = batch_size or self.replay_batch_size (None and 0 are falsy)
EffectiveSize(batch_size) ==
    IF batch_size = 0 THEN ReplayBatchSize ELSE batch_size

\* the lists experience_replay(batch_size) can return
ExperienceReplayResults(mem, batch_size) ==
    IF mem = <<>>
    THEN {<<>>}
    ELSE PrioritySampling(mem, Min(EffectiveSize(batch_size), Len(mem)))

\* experience_replay(batch_size)
ExperienceReplay(batch_size) ==
    /\ returned' \in ExperienceReplayResults(experience_memory, batch_size)
    /\ lastOp' = [op |-> "replay", batch_size |-> batch_size]
    /\ UNCHANGED <<memVars, instVars, graphVars, agentVars>>

----------------------------------------------------------------------------
(* LifelongLearningSystem objects: learning, export and import *)

\* A LifelongLearningSystem object is a record
\*   memory_capacity, experience_memory, learning_history, learning_rate,
\*   adaptation_factor : the attributes of that name, the two floats as
\*                       fractions [num, den]
\*   performance_metrics : the reference of its performance_metrics dict,
\*                       an index of metrics_objects
\*   imports : history, not program state: import_knowledge calls made on it
\* Its replay_batch_size is ReplayBatchSize.  An experience handed to
\* learn_from_batch is [reward, action] with action <<>> for an action dict
\* without 'type' and <<t>> for type t; a stored experience has no action.
\* A learning event is a record that may lack any key.

\* the performance_metrics dict __init__ creates
NewMetrics ==
    [total_experiences |-> 0, successful_predictions |-> 0,
     failed_predictions |-> 0, accuracy |-> [num |-> 0, den |-> 1]]

\* LifelongLearningSystem.__init__ with config memory_capacity and
\* learning_rate; ref is where its performance_metrics dict lives
NewSystem(capacity, rate, ref) ==
    [memory_capacity |-> capacity, experience_memory |-> <<>>,
     learning_history |-> <<>>, learning_rate |-> rate,
     adaptation_factor |-> [num |-> 1, den |-> 1],
     performance_metrics |-> ref, imports |-> 0]

\* no such object exists
NoSystems ==
    /\ systems = <<>>
    /\ metrics_objects = <<>>
    /\ calls = 0

\* store_experience on the dict m: the counters and the accuracy
StoreMetrics(m, reward) ==
    LET successful == m.successful_predictions
                        + (IF IsSuccess(reward) THEN 1 ELSE 0)
        failed == m.failed_predictions
                        + (IF IsSuccess(reward) THEN 0 ELSE 1)
        total == successful + failed
    IN  [total_experiences |-> m.total_experiences + 1,
         successful_predictions |-> successful,
         failed_predictions |-> failed,
         accuracy |-> IF total > 0
                      THEN [num |-> successful, den |-> total]
                      ELSE m.accuracy]

\* store_experience on the list mem: append, then prune when over capacity
StoreMemory(mem, capacity, reward, now, uid) ==
    LET appended == Append(mem, NewExperience(mem, reward, now, uid))
    IN  IF OverCapacity(appended, capacity)
        THEN PruneMemory(appended, capacity, now)
        ELSE appended

\* exp.get('action', {}).get('type', 'unknown')
StrategyOf(exp) ==
    IF "action" \in DOMAIN exp /\ exp.action # <<>>
    THEN exp.action[1]
    ELSE "unknown"

\* the position of strategy among the keys of action_outcomes, 0 if absent
OutcomeIndex(action_outcomes, strategy) ==
    IF \E i \in DOMAIN action_outcomes : action_outcomes[i].strategy = strategy
    THEN CHOOSE i \in DOMAIN action_outcomes :
            action_outcomes[i].strategy = strategy
    ELSE 0

\* one pass of the loop of _extract_patterns over exp
ExtractOne(patterns, exp) ==
    LET strategy == StrategyOf(exp)
        known == IF OutcomeIndex(patterns.action_outcomes, strategy) = 0
                 THEN Append(patterns.action_outcomes,
                             [strategy |-> strategy, count |-> 0,
                              total_reward |-> 0])
                 ELSE patterns.action_outcomes
        i == OutcomeIndex(known, strategy)
    IN  [successful_strategies |->
            IF exp.reward > 0
            THEN Append(patterns.successful_strategies, strategy)
            ELSE patterns.successful_strategies,
         failed_strategies |->
            IF exp.reward > 0
            THEN patterns.failed_strategies
            ELSE Append(patterns.failed_strategies, strategy),
         action_outcomes |->
            [known EXCEPT ![i] = [@ EXCEPT !.count = @ + 1,
                                           !.total_reward = @ + exp.reward]]]

RECURSIVE ExtractLoop(_, _)
ExtractLoop(patterns, batch) ==
    IF batch = <<>>
    THEN patterns
    ELSE ExtractLoop(ExtractOne(patterns, Head(batch)), Tail(batch))

\* sum(1 for s in successful_strategies if s == strategy)
SuccessCount(successful_strategies, strategy) ==
    Cardinality({i \in DOMAIN successful_strategies :
                    successful_strategies[i] = strategy})

\* _extract_patterns: action_outcomes is the list of its entries in key
\* order, avg_reward (in halves) and success_rate as fractions
ExtractPatterns(batch) ==
    LET looped == ExtractLoop([successful_strategies |-> <<>>,
                               failed_strategies |-> <<>>,
                               action_outcomes |-> <<>>], batch)
    IN  [looped EXCEPT !.action_outcomes =
            [i \in DOMAIN @ |->
                [strategy |-> @[i].strategy,
                 count |-> @[i].count,
                 total_reward |-> @[i].total_reward,
                 avg_reward |-> [num |-> @[i].total_reward,
                                 den |-> @[i].count],
                 success_rate |->
                    [num |-> SuccessCount(looped.successful_strategies,
                                          @[i].strategy),
                     den |-> @[i].count]]]]

\* a float is kept as the fraction [num, den] in lowest terms
RECURSIVE GCD(_, _)
GCD(a, b) == IF b = 0 THEN a ELSE GCD(b, a % b)
Frac(n, d) == [num |-> n \div GCD(n, d), den |-> d \div GCD(n, d)]

\* a < b for fractions with positive denominators
FracLess(a, b) == a.num * b.den < b.num * a.den
FracEq(a, b) == a.num * b.den = b.num * a.den

\* max(action_outcomes.items(), key=avg_reward): the first entry no other
\* entry exceeds
BestStrategy(action_outcomes) ==
    LET maximal == {i \in DOMAIN action_outcomes :
                      \A j \in DOMAIN action_outcomes :
                          ~FracLess(action_outcomes[i].avg_reward,
                                    action_outcomes[j].avg_reward)}
    IN  action_outcomes[CHOOSE i \in maximal : \A j \in maximal : i <= j]

\* a low success rate alone
WorstPerformerAnyCount(data) == 10 * data.success_rate.num < 3 * data.success_rate.den

\* data.get('success_rate', 0) < 0.3 and data.get('count', 0) > 5
WorstPerformer(data) ==
    /\ 10 * data.success_rate.num < 3 * data.success_rate.den
    /\ data.count > 5

RECURSIVE Deprioritized(_)
Deprioritized(action_outcomes) ==
    IF action_outcomes = <<>>
    THEN <<>>
    ELSE (IF WorstPerformer(Head(action_outcomes))
          THEN <<[type |-> "deprioritize_strategy",
                  strategy |-> Head(action_outcomes).strategy]>>
          ELSE <<>>)
         \o Deprioritized(Tail(action_outcomes))

\* no update for the best strategy
UpdateStrategiesWorstOnly(patterns) == Deprioritized(patterns.action_outcomes)

\* _update_strategies: the updates, their reason strings left out
UpdateStrategies(patterns) ==
    (IF patterns.action_outcomes # <<>>
     THEN <<[type |-> "prioritize_strategy",
             strategy |-> BestStrategy(patterns.action_outcomes).strategy]>>
     ELSE <<>>)
    \o Deprioritized(patterns.action_outcomes)

\* event.get('learning_updates', 0)
UpdatesOf(event) ==
    IF "learning_updates" \in DOMAIN event THEN event.learning_updates ELSE 0

RECURSIVE SumUpdates(_)
SumUpdates(events) ==
    IF events = <<>> THEN 0
    ELSE UpdatesOf(Head(events)) + SumUpdates(Tail(events))

\* the window of events and the bounds of the rate in _adapt_learning_rate
AdaptWindow == 5
RateCeiling == [num |-> 1, den |-> 10]
RateFloor == [num |-> 1, den |-> 1000]

FracMin(a, b) == IF FracLess(b, a) THEN b ELSE a
FracMax(a, b) == IF FracLess(a, b) THEN b ELSE a

\* the rate lowered on good progress as well
AdaptedRateAlwaysLower(rate, recent) ==
    FracMax(RateFloor, Frac(rate.num * 9, rate.den * 10))

\* the learning rate _adapt_learning_rate sets from the recent events:
\* avg_updates > 3 is sum > 3*len, avg_updates < 1 is sum < len
AdaptedRate(rate, recent) ==
    IF SumUpdates(recent) > 3 * Len(recent)
    THEN FracMin(RateCeiling, Frac(rate.num * 11, rate.den * 10))
    ELSE IF SumUpdates(recent) < Len(recent)
         THEN FracMax(RateFloor, Frac(rate.num * 9, rate.den * 10))
         ELSE rate

\* 1.0 + (self.learning_rate * 10)
AdaptationFactor(rate) == Frac(rate.den + 10 * rate.num, rate.den)

\* _adapt_learning_rate
AdaptLearningRate(sys) ==
    IF Len(sys.learning_history) < AdaptWindow
    THEN sys
    ELSE LET recent == Drop(sys.learning_history,
                            Len(sys.learning_history) - AdaptWindow)
             rate == AdaptedRate(sys.learning_rate, recent)
         IN  [sys EXCEPT !.learning_rate = rate,
                         !.adaptation_factor = AdaptationFactor(rate)]

\* learn_from_batch once the batch is known: the object afterwards and the
\* dict returned (its timestamp and its empty insights list left out)
LearnFromBatch(sys, batch) ==
    IF batch = <<>>
    THEN [sys |-> sys,
          result |-> [status |-> "no_experiences", learning_updates |-> 0]]
    ELSE LET patterns == ExtractPatterns(batch)
             strategy_updates == UpdateStrategies(patterns)
             learning_results ==
                 [batch_size |-> Len(batch),
                  learning_updates |-> Len(strategy_updates),
                  patterns |-> patterns,
                  strategy_updates |-> strategy_updates]
         IN  [sys |-> AdaptLearningRate(
                        [sys EXCEPT !.learning_history =
                                        Append(@, learning_results)]),
              result |-> learning_results]

\* sizes of the slices export_knowledge takes
ExportedExperiences == 100
ExportedEvents == 50

\* the dicts export_knowledge can return, as far as import_knowledge reads
\* them; performance_metrics is the object's own dict, not a copy
ExportKnowledge(sys) ==
    { [performance_metrics |-> sys.performance_metrics,
       learning_rate |-> sys.learning_rate,
       adaptation_factor |-> sys.adaptation_factor,
       top_experiences |-> top,
       learning_history |-> Drop(sys.learning_history,
                                 Len(sys.learning_history) - ExportedEvents)] :
        top \in PrioritySampling(sys.experience_memory, ExportedExperiences) }

\* import_knowledge(knowledge): each key is used only if present
ImportKnowledge(sys, knowledge) ==
    [sys EXCEPT
        !.performance_metrics =
            IF "performance_metrics" \in DOMAIN knowledge
            THEN knowledge.performance_metrics ELSE @,
        !.learning_rate =
            IF "learning_rate" \in DOMAIN knowledge
            THEN knowledge.learning_rate ELSE @,
        !.adaptation_factor =
            IF "adaptation_factor" \in DOMAIN knowledge
            THEN knowledge.adaptation_factor ELSE @,
        !.experience_memory =
            IF "top_experiences" \in DOMAIN knowledge
            THEN @ \o knowledge.top_experiences ELSE @,
        !.learning_history =
            IF "learning_history" \in DOMAIN knowledge
            THEN @ \o knowledge.learning_history ELSE @,
        !.imports = @ + 1]

----------------------------------------------------------------------------------------------------------------------------------------
(* KnowledgeGraph *)

\* A graph is a record
\*   nodes : the node ids of self.graph, in insertion order
\*   adj   : node id -> its out-edges [target, weight, relationship], in
\*           the order networkx keeps them (first insertion of the target)
\*   meta  : self.node_metadata as [id, type] entries in key order
\*   first : history, not program state: the node_type each id was given by
\*           the first add_node call for it, as [id, type] entries

\* KnowledgeGraph.__init__
EmptyGraph == [nodes |-> <<>>, adj |-> <<>>, meta |-> <<>>, first |-> <<>>]

Range(s) == {s[i] : i \in DOMAIN s}

NodeSet(g) == Range(g.nodes)
MetaIds(g) == {g.meta[i].id : i \in DOMAIN g.meta}
EdgeSet(g) ==
    UNION {{[source |-> v, target |-> g.adj[v][i].target,
             weight |-> g.adj[v][i].weight,
             relationship |-> g.adj[v][i].relationship] :
               i \in DOMAIN g.adj[v]} : v \in NodeSet(g)}

\* self.graph.add_node(node_id): a node already present keeps its place
GraphAddNode(g, node_id) ==
    IF node_id \in NodeSet(g)
    THEN g
    ELSE [g EXCEPT !.nodes = Append(@, node_id),
                   !.adj = (node_id :> <<>>) @@ @]

\* dict[key] = value on a list of entries keyed by the field named key:
\* an existing key keeps its place
Upsert(entries, key, entry) ==
    IF \E i \in DOMAIN entries : entries[i][key] = entry[key]
    THEN [i \in DOMAIN entries |->
            IF entries[i][key] = entry[key] THEN entry ELSE entries[i]]
    ELSE Append(entries, entry)

\* self.node_metadata[node_id] = {'type': node_type, ...}
SetMetadata(meta, node_id, node_type) ==
    Upsert(meta, "id", [id |-> node_id, type |-> node_type])

\* the history of first kinds after add_node(node_id, node_type)
RecordFirstKind(first, node_id, node_type) ==
    IF \E i \in DOMAIN first : first[i].id = node_id
    THEN first
    ELSE Append(first, [id |-> node_id, type |-> node_type])

\* KnowledgeGraph.add_node
AddNode(g, node_id, node_type) ==
    [GraphAddNode(g, node_id) EXCEPT
        !.meta = SetMetadata(g.meta, node_id, node_type),
        !.first = RecordFirstKind(g.first, node_id, node_type)]

\* self.graph.add_edge(source, target, weight=..., relationship=...):
\* networkx creates the endpoints it does not know, source first, and
\* replaces the attributes of an edge that exists
GraphAddEdge(g, source, target, weight, relationship) ==
    LET g1 == GraphAddNode(GraphAddNode(g, source), target)
    IN  [g1 EXCEPT !.adj[source] =
            Upsert(@, "target",
                   [target |-> target, weight |-> weight,
                    relationship |-> relationship])]

\* KnowledgeGraph.add_edge: the graph afterwards and what was raised; the
\* method is the one networkx call and raises nothing
AddEdge(g, source, target, weight, relationship) ==
    [graph |-> GraphAddEdge(g, source, target, weight, relationship),
     raised |-> "none"]

(* nx.single_source_dijkstra_path_length(G, source, weight='weight'):      *)
(* networkx's _dijkstra_multisource.  fringe holds <<distance, counter,    *)
(* node>> and heappop takes the least; dist lists the finalised nodes in   *)
(* the order they were popped (the order of the returned dict).            *)

DistNodes(dist) == {dist[i].node : i \in DOMAIN dist}
DistOf(dist, v) == (CHOOSE i \in DOMAIN dist : dist[i].node = v)
DistValue(dist, v) == dist[DistOf(dist, v)].d

\* heappop(fringe)
HeapMin(fringe) ==
    CHOOSE x \in fringe :
        \A y \in fringe : x[1] < y[1] \/ (x[1] = y[1] /\ x[2] <= y[2])

\* vu_dist < dist[u] for a finalised u raises ValueError('Contradictory
\* paths found:', 'negative weights?')
Contradictory(vu_dist, u_dist) == vu_dist < u_dist

\* a tentative distance that is never lowered once set
ImprovesFirstSeenOnly(seen, u, vu_dist) == u \notin DOMAIN seen

\* u not in seen or vu_dist < seen[u]
Improves(seen, u, vu_dist) == u \notin DOMAIN seen \/ vu_dist < seen[u]

\* the loop over G_succ[v].items() after v was finalised at distance dv
RECURSIVE Relax(_, _, _, _)
Relax(out, dv, dist, st) ==
    IF out = <<>> \/ st.error
    THEN st
    ELSE LET u == Head(out).target
             vu_dist == dv + Head(out).weight
         IN  IF u \in DistNodes(dist)
             THEN IF Contradictory(vu_dist, DistValue(dist, u))
                  THEN [st EXCEPT !.error = TRUE]
                  ELSE Relax(Tail(out), dv, dist, st)
             ELSE IF Improves(st.seen, u, vu_dist)
                  THEN Relax(Tail(out), dv, dist,
                             [st EXCEPT !.seen = (u :> vu_dist) @@ @,
                                        !.fringe = @ \cup {<<vu_dist, st.c, u>>},
                                        !.c = @ + 1])
                  ELSE Relax(Tail(out), dv, dist, st)

\* while fringe: pop, skip a node already finalised, finalise, relax
RECURSIVE DijkstraLoop(_, _, _)
DijkstraLoop(g, dist, st) ==
    IF st.error THEN [error |-> TRUE, dist |-> dist]
    ELSE IF st.fringe = {} THEN [error |-> FALSE, dist |-> dist]
    ELSE LET top == HeapMin(st.fringe)
             v == top[3]
             rest == [st EXCEPT !.fringe = @ \ {top}]
         IN  IF v \in DistNodes(dist)
             THEN DijkstraLoop(g, dist, rest)
             ELSE LET dist1 == Append(dist, [node |-> v, d |-> top[1]])
                  IN  DijkstraLoop(g, dist1, Relax(g.adj[v], top[1], dist1, rest))

Dijkstra(g, source) ==
    DijkstraLoop(g, <<>>,
                 [seen |-> (source :> 0), fringe |-> {<<0, 0, source>>},
                  c |-> 1, error |-> FALSE])

\* KnowledgeGraph.compute_sssp: raised is "none", "unknown_node" (the
\* ValueError of line 63) or "contradictory_paths" (networkx's ValueError);
\* distances is the returned dict as [node, d] entries in dict order
ComputeSssp(g, source_node) ==
    IF source_node \notin NodeSet(g)
    THEN [raised |-> "unknown_node", distances |-> <<>>]
    ELSE LET r == Dijkstra(g, source_node)
         IN  IF r.error
             THEN [raised |-> "contradictory_paths", distances |-> <<>>]
             ELSE [raised |-> "none", distances |-> r.dist]

\* max(distances.values())
RECURSIVE MaxDistance(_)
MaxDistance(distances) ==
    IF Len(distances) = 1 THEN distances[1].d
    ELSE Max(distances[1].d, MaxDistance(Tail(distances)))

\* 1.0 + distance / max_distance: the sign of the distance term flipped
PriorityScoreSignFlipped(distance, max_distance) ==
    IF max_distance > 0
    THEN [num |-> max_distance + distance, den |-> max_distance]
    ELSE [num |-> 1, den |-> 1]

\* distance divided by max_distance + 1, a guard against dividing by zero
PriorityScoreOverMaxPlusOne(distance, max_distance) ==
    [num |-> max_distance + 1 - distance, den |-> max_distance + 1]

\* priority_score = 1.0 - (distance / max_distance) if max_distance > 0
\* else 1.0, as the fraction num/den with den > 0
PriorityScore(distance, max_distance) ==
    IF max_distance > 0
    THEN [num |-> max_distance - distance, den |-> max_distance]
    ELSE [num |-> 1, den |-> 1]

\* priority_score >= threshold, threshold in tenths
PassesThreshold(score, threshold) == 10 * score.num >= threshold * score.den

\* a > b for two scores
ScoreGreater(a, b) == a.num * b.den > b.num * a.den

\* the loop building priorities: every non-source node whose score passes
RECURSIVE CollectPriorities(_, _, _, _)
CollectPriorities(distances, source_node, max_distance, threshold) ==
    IF distances = <<>> THEN <<>>
    ELSE LET e == Head(distances)
             score == PriorityScore(e.d, max_distance)
             rest == CollectPriorities(Tail(distances), source_node,
                                       max_distance, threshold)
         IN  IF e.node # source_node /\ PassesThreshold(score, threshold)
             THEN <<[node |-> e.node, score |-> score]>> \o rest
             ELSE rest

\* priorities.sort(key=lambda x: x[1], reverse=True)
SortPriorities(priorities) ==
    SortDescStable(priorities,
        [i, j \in DOMAIN priorities |->
            ScoreGreater(priorities[i].score, priorities[j].score)])

\* s[:k] as Python slices: a negative k counts from the end
PySlicePrefix(s, k) == IF k >= 0 THEN Take(s, k) ELSE Take(s, Len(s) + k)

\* if max_nodes: priorities = priorities[:max_nodes]; max_nodes is <<>>
\* for None and <<k>> for the integer k
Truncate(priorities, max_nodes) ==
    IF max_nodes # <<>> /\ max_nodes[1] # 0
    THEN PySlicePrefix(priorities, max_nodes[1])
    ELSE priorities

\* KnowledgeGraph.get_priority_nodes
GetPriorityNodes(g, source_node, threshold, max_nodes) ==
    LET sssp == ComputeSssp(g, source_node)
    IN  IF sssp.raised # "none"
        THEN [raised |-> sssp.raised, priorities |-> <<>>]
        ELSE IF sssp.distances = <<>>
        THEN [raised |-> "none", priorities |-> <<>>]
        ELSE [raised |-> "none",
              priorities |->
                Truncate(SortPriorities(
                    CollectPriorities(sssp.distances, source_node,
                        MaxDistance(sssp.distances), threshold)),
                    max_nodes)]

\* KnowledgeGraph.get_node_info
GetNodeInfo(g, node_id) ==
    IF node_id \notin MetaIds(g)
    THEN [raised |-> "unknown_node", type |-> "none"]
    ELSE [raised |-> "none",
          type |-> g.meta[CHOOSE i \in DOMAIN g.meta : g.meta[i].id = node_id].type]

----------------------------------------------------------------------------
(* MasterAgent *)

\* An optional dict field is <<>> when the key is absent and <<v>> when it
\* holds v.  A market-data record has target (optional) and the lists
\* stocks, news, charts, videos; a missing list key behaves as the empty
\* list (the loop is skipped).
Get(field, default) == IF field = <<>> THEN default ELSE field[1]

\* market_data.get('target', 'market_analysis')
TargetOf(market_data) == Get(market_data.target, "market_analysis")

\* f"stock_{symbol}", f"news_{idx}", f"chart_{idx}", f"video_{idx}"
StockNodeId(symbol) ==
    CASE symbol = "A" -> "stock_A"
      [] symbol = "B" -> "stock_B"
NewsNodeId(idx) ==
    CASE idx = 0 -> "news_0"
      [] idx = 1 -> "news_1"
ChartNodeId(idx) == CASE idx = 0 -> "chart_0"
VideoNodeId(idx) == CASE idx = 0 -> "video_0"

\* the weight inserted for an item: item.get('weight', default), in halves
ItemWeight(item, default) == Get(item.weight, default)

\* one pass of the stocks loop (lines 65-74); stock['symbol'] raises
\* KeyError when the key is absent
AddStock(st, target, stock) ==
    IF stock.symbol = <<>>
    THEN [st EXCEPT !.raised = "KeyError"]
    ELSE LET node_id == StockNodeId(stock.symbol[1])
             g1 == AddNode(st.graph, node_id, "stock")
             r == AddEdge(g1, target, node_id, ItemWeight(stock, 2), "related")
         IN  [graph |-> r.graph, raised |-> r.raised]

\* every referenced stock taken as present
StockKnownAlways(g, stock_node) == TRUE

\* if stock_node in self.knowledge_graph.graph
StockKnown(g, stock_node) == stock_node \in NodeSet(g)

\* the loop over news_item['related_stocks'] (lines 89-98)
RECURSIVE AddMentions(_, _, _)
AddMentions(st, node_id, symbols) ==
    IF symbols = <<>> \/ st.raised # "none"
    THEN st
    ELSE LET stock_node == StockNodeId(Head(symbols))
         IN  IF StockKnown(st.graph, stock_node)
             THEN LET r == AddEdge(st.graph, node_id, stock_node, 1, "mentions")
                  IN  AddMentions([graph |-> r.graph, raised |-> r.raised],
                                  node_id, Tail(symbols))
             ELSE AddMentions(st, node_id, Tail(symbols))

\* one pass of the news loop (lines 78-98); idx is enumerate's 0-based index
AddNews(st, target, idx, news_item) ==
    LET node_id == NewsNodeId(idx)
        g1 == AddNode(st.graph, node_id, "news")
        r == AddEdge(g1, target, node_id, ItemWeight(news_item, 3), "related")
    IN  AddMentions([graph |-> r.graph, raised |-> r.raised], node_id,
                    news_item.related_stocks)

\* one pass of the charts loop (lines 102-110)
AddChart(st, target, idx, chart) ==
    LET node_id == ChartNodeId(idx)
        g1 == AddNode(st.graph, node_id, "chart")
        r == AddEdge(g1, target, node_id, ItemWeight(chart, 4), "related")
    IN  [graph |-> r.graph, raised |-> r.raised]

\* one pass of the videos loop (lines 114-122)
AddVideo(st, target, idx, video) ==
    LET node_id == VideoNodeId(idx)
        g1 == AddNode(st.graph, node_id, "video")
        r == AddEdge(g1, target, node_id, ItemWeight(video, 6), "related")
    IN  [graph |-> r.graph, raised |-> r.raised]

\* the body of the loop over market_data[kind]
LoopBody(kind, st, target, idx, item) ==
    CASE kind = "stocks" -> AddStock(st, target, item)
      [] kind = "news" -> AddNews(st, target, idx, item)
      [] kind = "charts" -> AddChart(st, target, idx, item)
      [] kind = "videos" -> AddVideo(st, target, idx, item)

\* for idx, item in enumerate(market_data[kind]), stopped by the first
\* exception
RECURSIVE ForEach(_, _, _, _, _)
ForEach(kind, st, target, items, idx) ==
    IF items = <<>> \/ st.raised # "none"
    THEN st
    ELSE ForEach(kind, LoopBody(kind, st, target, idx, Head(items)), target,
                 Tail(items), idx + 1)

\* MasterAgent.build_knowledge_graph: the graph afterwards and what was
\* raised
BuildKnowledgeGraph(g, market_data) ==
    LET target == TargetOf(market_data)
        st0 == [graph |-> AddNode(g, target, "root"), raised |-> "none"]
        st1 == ForEach("stocks", st0, target, market_data.stocks, 0)
        st2 == ForEach("news", st1, target, market_data.news, 0)
        st3 == ForEach("charts", st2, target, market_data.charts, 0)
    IN  ForEach("videos", st3, target, market_data.videos, 0)

\* chart nodes routed to the text worker
CategoryOfChartAsText(node_type) ==
    CASE node_type \in {"news", "stock", "chart"} -> "text_agent"
      [] node_type = "video" -> "video_agent"
      [] OTHER -> "none"

\* the category delegate_to_sub_agents routes a node type to
CategoryOf(node_type) ==
    CASE node_type \in {"news", "stock"} -> "text_agent"
      [] node_type = "chart" -> "vision_agent"
      [] node_type = "video" -> "video_agent"
      [] OTHER -> "none"

NoTasks == [text_agent |-> <<>>, vision_agent |-> <<>>, video_agent |-> <<>>]

\* the task delegate_to_sub_agents appends for a prioritized node
TaskFor(entry) == [node_id |-> entry.node, priority |-> entry.score]

\* MasterAgent.delegate_to_sub_agents: get_node_info raises for a node
\* without metadata, a type outside the three branches adds nothing
RECURSIVE DelegateLoop(_, _, _)
DelegateLoop(g, prioritized_nodes, tasks) ==
    IF prioritized_nodes = <<>>
    THEN [raised |-> "none", tasks |-> tasks]
    ELSE LET entry == Head(prioritized_nodes)
             node_info == GetNodeInfo(g, entry.node)
             category == CategoryOf(node_info.type)
         IN  IF node_info.raised # "none"
             THEN [raised |-> node_info.raised, tasks |-> NoTasks]
             ELSE IF category = "none"
             THEN DelegateLoop(g, Tail(prioritized_nodes), tasks)
             ELSE DelegateLoop(g, Tail(prioritized_nodes),
                     [tasks EXCEPT ![category] = Append(@, TaskFor(entry))])

DelegateToSubAgents(g, prioritized_nodes) ==
    DelegateLoop(g, prioritized_nodes, NoTasks)

(* The config object of "from ..config import config" is not defined by    *)
(* src/market_analysis/config.py.  Its priority threshold is the default   *)
(* the specification states (0.3, in tenths); the specification names the  *)
(* maximum graph depth without a value, so a configuration holds one of    *)
(* GraphDepths.                                                            *)
SSSP_PRIORITY_THRESHOLD == 3
GraphDepths == {1, 2}
Configs ==
    {[SSSP_PRIORITY_THRESHOLD |-> SSSP_PRIORITY_THRESHOLD,
      MAX_GRAPH_DEPTH |-> d] : d \in GraphDepths}
DefaultConfig ==
    [SSSP_PRIORITY_THRESHOLD |-> SSSP_PRIORITY_THRESHOLD, MAX_GRAPH_DEPTH |-> 1]

\* root_nodes: the ids of node_metadata, in key order, whose type is root
RECURSIVE RootNodes(_)
RootNodes(meta) ==
    IF meta = <<>> THEN <<>>
    ELSE IF Head(meta).type = "root"
         THEN <<Head(meta).id>> \o RootNodes(Tail(meta))
         ELSE RootNodes(Tail(meta))

\* the source node prioritize_data_sources starts from when none is given:
\* root_nodes[0] if root_nodes else list(graph.nodes())[0]; the index
\* raises IndexError on a graph without nodes
DefaultSource(g) ==
    LET root_nodes == RootNodes(g.meta)
    IN  IF root_nodes # <<>> THEN [raised |-> "none", node |-> root_nodes[1]]
        ELSE IF g.nodes # <<>> THEN [raised |-> "none", node |-> g.nodes[1]]
        ELSE [raised |-> "IndexError", node |-> "none"]

\* MasterAgent.prioritize_data_sources; source_node and threshold are <<>>
\* for None
PrioritizeDataSources(g, cfg, source_node, threshold) ==
    LET source == IF source_node = <<>> THEN DefaultSource(g)
                  ELSE [raised |-> "none", node |-> source_node[1]]
    IN  IF source.raised # "none"
        THEN [raised |-> source.raised, priorities |-> <<>>]
        ELSE GetPriorityNodes(g, source.node,
                 Get(threshold, cfg.SSSP_PRIORITY_THRESHOLD),
                 <<cfg.MAX_GRAPH_DEPTH * 3>>)

\* sub_agent_results is the dict as [agent_type, results] entries in key
\* order; a result has the optional keys insights (a list) and confidence
\* (in tenths).  acc is <<insights, total_insights, total_confidence>>.

\* the body of "for result in results"
AggregateResult(acc, result) ==
    LET withInsights ==
            IF result.insights # <<>>
            THEN [acc EXCEPT !.insights = @ \o result.insights[1],
                             !.total_insights = @ + Len(result.insights[1])]
            ELSE acc
    IN  IF result.confidence # <<>>
        THEN [withInsights EXCEPT !.total_confidence = @ + result.confidence[1]]
        ELSE withInsights

RECURSIVE AggregateResults(_, _)
AggregateResults(acc, results) ==
    IF results = <<>> THEN acc
    ELSE AggregateResults(AggregateResult(acc, Head(results)), Tail(results))

\* "for agent_type, results in sub_agent_results.items()"
RECURSIVE AggregateAgents(_, _)
AggregateAgents(acc, sub_agent_results) ==
    IF sub_agent_results = <<>> THEN acc
    ELSE AggregateAgents(AggregateResults(acc, Head(sub_agent_results).results),
                         Tail(sub_agent_results))

\* the total confidence left undivided
ConfidenceScoreUndivided(total_confidence, total_insights) ==
    [num |-> total_confidence, den |-> 1]

\* confidence_score: total_confidence / total_insights if total_insights > 0,
\* else the initial 0.0; the fraction num/den
ConfidenceScore(total_confidence, total_insights) ==
    IF total_insights > 0
    THEN [num |-> total_confidence, den |-> total_insights]
    ELSE [num |-> 0, den |-> 1]

\* MasterAgent.aggregate_insights: the dict returned (its timestamp left
\* out) and insights_cache afterwards
AggregateInsights(cache, sub_agent_results) ==
    LET acc == AggregateAgents([insights |-> <<>>, total_insights |-> 0,
                                total_confidence |-> 0], sub_agent_results)
        aggregated ==
            [insights |-> acc.insights,
             recommendations |-> <<>>,
             confidence_score |->
                ConfidenceScore(acc.total_confidence, acc.total_insights)]
    IN  [aggregated |-> aggregated, cache |-> Append(cache, aggregated)]

\* self.knowledge_graph.graph.number_of_edges()
NumberOfEdges(g) ==
    Cardinality({<<v, i>> \in NodeSet(g) \X (1..Len(g.nodes)) :
                    i \in DOMAIN g.adj[v]})

\* the dict analyze_market returns (lines 270-280, timestamp left out)
AnalysisResult(g, priorities, tasks) ==
    [raised |-> "none",
     status |-> "analysis_complete",
     graph_stats |-> [nodes |-> Len(g.nodes), edges |-> NumberOfEdges(g)],
     prioritized_nodes |-> Len(priorities),
     delegated_tasks |-> [c \in DOMAIN tasks |-> Len(tasks[c])],
     tasks |-> tasks]

\* no analyze_market call is running.  cache_len is history: the length of
\* insights_cache when the running call was entered
NoFrame == [market_data |-> <<>>, priorities |-> <<>>, cache_len |-> 0]

----------------------------------------------------------------------------
(* Specification of the learning system: store_experience and             *)
(* experience_replay in any order on a fresh system.  Capacities up to     *)
(* MaxCap get every reward and clock advance; capacity ScenarioCap gets    *)
(* reward 1.0 at timestamps one hour apart.                                *)

MemInit ==
    /\ NoSystems
    /\ memory_capacity \in (1..MaxCap) \cup {ScenarioCap}
    /\ experience_memory = <<>>
    /\ total_experiences = 0
    /\ successful_predictions = 0
    /\ failed_predictions = 0
    /\ clock = 0
    /\ pruneCount = 0
    /\ idLog = <<>>
    /\ lastOp = [op |-> "init"]
    /\ returned = <<>>
    /\ knowledge_graph = EmptyGraph
    /\ graphOps = 0
    /\ buildCount = 0
    /\ config = DefaultConfig
    /\ insights_cache = <<>>
    /\ pc = "Idle"
    /\ frame = NoFrame

Init == MemInit

Store ==
    /\ memory_capacity <= MaxCap
    /\ total_experiences < MaxStores
    /\ \E reward \in Rewards, d \in 0..1 :
          /\ clock + d <= MaxClock
          /\ StoreExperience(reward, d)

ScenarioStore ==
    /\ memory_capacity > MaxCap
    /\ total_experiences < memory_capacity + ScenarioExtra
    /\ StoreExperience(2, 1)

Replay == \E batch_size \in 0..MaxBatch : ExperienceReplay(batch_size)

Next == Store \/ ScenarioStore \/ Replay

Spec == Init /\ [][Next]_vars

----------------------------------------------------------------------------
(* Specification of the graph: a fresh KnowledgeGraph that is either       *)
(* driven through add_node / add_edge or owned by a MasterAgent and filled *)
(* by build_knowledge_graph, and queried at any point.  delegate is called *)
(* on the list the call before it returned, as analyze_market does.        *)

GraphInit ==
    /\ NoSystems
    /\ knowledge_graph = EmptyGraph
    /\ graphOps = 0
    /\ buildCount = 0
    /\ lastOp = [op |-> "init"]
    /\ returned = [raised |-> "none"]
    /\ memory_capacity = 1
    /\ experience_memory = <<>>
    /\ total_experiences = 0
    /\ successful_predictions = 0
    /\ failed_predictions = 0
    /\ clock = 0
    /\ pruneCount = 0
    /\ idLog = <<>>
    /\ config = DefaultConfig
    /\ insights_cache = <<>>
    /\ pc = "Idle"
    /\ frame = NoFrame

CallAddNode ==
    /\ buildCount = 0
    /\ graphOps < MaxGraphOps
    /\ \E node_id \in ApiNodeIds, node_type \in ApiNodeTypes :
          /\ knowledge_graph' = AddNode(knowledge_graph, node_id, node_type)
          /\ lastOp' = [op |-> "add_node", node_id |-> node_id,
                        node_type |-> node_type]
    /\ returned' = [raised |-> "none"]
    /\ graphOps' = graphOps + 1
    /\ UNCHANGED <<memVars, instVars, buildCount, agentVars>>

CallAddEdge ==
    /\ buildCount = 0
    /\ graphOps < MaxGraphOps
    /\ \E source \in ApiNodeIds, target \in ApiNodeIds, weight \in ApiWeights :
          LET r == AddEdge(knowledge_graph, source, target, weight, "related")
          IN  /\ knowledge_graph' = r.graph
              /\ returned' = [raised |-> r.raised]
              /\ lastOp' = [op |-> "add_edge", source |-> source,
                            target |-> target, weight |-> weight]
    /\ graphOps' = graphOps + 1
    /\ UNCHANGED <<memVars, instVars, buildCount, agentVars>>

CallBuildKnowledgeGraph ==
    /\ graphOps = 0
    /\ buildCount < MaxBuilds
    /\ \E market_data \in MarketData :
          LET r == BuildKnowledgeGraph(knowledge_graph, market_data)
          IN  /\ knowledge_graph' = r.graph
              /\ returned' = [raised |-> r.raised]
              /\ lastOp' = [op |-> "build_knowledge_graph",
                            market_data |-> market_data]
    /\ buildCount' = buildCount + 1
    /\ UNCHANGED <<memVars, instVars, graphOps, agentVars>>

\* compute_sssp and get_priority_nodes leave the graph as it is: a query
\* made right after another query reaches no state that the same query
\* made right after the last change of the graph does not reach
AfterChange ==
    /\ pc = "Idle"
    /\ lastOp.op \in {"init", "add_node", "add_edge", "build_knowledge_graph",
                      "analyze_market"}

CallComputeSssp ==
    /\ AfterChange
    /\ \E source_node \in ApiNodeIds :
          /\ returned' = ComputeSssp(knowledge_graph, source_node)
          /\ lastOp' = [op |-> "compute_sssp", source_node |-> source_node]
    /\ UNCHANGED <<memVars, instVars, graphVars, agentVars>>

CallGetPriorityNodes ==
    /\ AfterChange
    /\ \E source_node \in ApiNodeIds, threshold \in Thresholds,
          max_nodes \in MaxNodesArgs :
          /\ returned' = GetPriorityNodes(knowledge_graph, source_node,
                                          threshold, max_nodes)
          /\ lastOp' = [op |-> "get_priority_nodes",
                        source_node |-> source_node,
                        threshold |-> threshold, max_nodes |-> max_nodes]
    /\ UNCHANGED <<memVars, instVars, graphVars, agentVars>>

CallDelegateToSubAgents ==
    /\ lastOp.op = "get_priority_nodes"
    /\ returned.raised = "none"
    /\ returned' = DelegateToSubAgents(knowledge_graph, returned.priorities)
    /\ lastOp' = [op |-> "delegate_to_sub_agents",
                  source_node |-> lastOp.source_node,
                  prioritized_nodes |-> returned.priorities]
    /\ UNCHANGED <<memVars, instVars, graphVars, agentVars>>

GraphNext ==
    \/ CallAddNode
    \/ CallAddEdge
    \/ CallBuildKnowledgeGraph
    \/ CallComputeSssp
    \/ CallGetPriorityNodes
    \/ CallDelegateToSubAgents

GraphSpec == GraphInit /\ [][GraphNext]_vars

----------------------------------------------------------------------------
(* Specification of the MasterAgent: analyze_market calls, each run as its *)
(* steps build_knowledge_graph, prioritize_data_sources,                    *)
(* delegate_to_sub_agents and return; between calls the caller may query   *)
(* the graph, call prioritize_data_sources and call aggregate_insights.    *)

MaxAnalyses == 2     \* analyze_market calls on one MasterAgent
MaxAggregates == 2   \* aggregate_insights calls on one MasterAgent

\* market data of the analysis cycles
CycleData ==
    { [target |-> <<>>, stocks |-> <<>>, news |-> <<>>, charts |-> <<>>,
       videos |-> <<>>],
      [target |-> <<>>,
       stocks |-> <<[symbol |-> <<"A">>, weight |-> <<>>]>>,
       news |-> <<[weight |-> <<>>, related_stocks |-> <<"A">>]>>,
       charts |-> <<[weight |-> <<>>]>>, videos |-> <<[weight |-> <<>>]>>],
      [target |-> <<"stock_A">>,
       stocks |-> <<[symbol |-> <<"A">>, weight |-> <<>>]>>,
       news |-> <<>>, charts |-> <<>>, videos |-> <<>>],
      [target |-> <<>>,
       stocks |-> <<[symbol |-> <<"A">>, weight |-> <<>>],
                    [symbol |-> <<>>, weight |-> <<>>]>>,
       news |-> <<[weight |-> <<>>, related_stocks |-> <<>>]>>,
       charts |-> <<>>, videos |-> <<>>],
      [target |-> <<"stock_A">>,
       stocks |-> <<[symbol |-> <<"A">>, weight |-> <<-2>>]>>,
       news |-> <<>>, charts |-> <<>>, videos |-> <<>>],
      [target |-> <<>>,
       stocks |-> <<[symbol |-> <<"A">>, weight |-> <<4>>]>>,
       news |-> <<[weight |-> <<1>>, related_stocks |-> <<"A", "B">>],
                  [weight |-> <<>>, related_stocks |-> <<"A">>]>>,
       charts |-> <<>>, videos |-> <<[weight |-> <<>>]>>],
      [target |-> <<"crypto">>,
       stocks |-> <<[symbol |-> <<"B">>, weight |-> <<>>],
                    [symbol |-> <<"A">>, weight |-> <<4>>]>>,
       news |-> <<>>, charts |-> <<>>, videos |-> <<>>] }

\* arguments of prioritize_data_sources (<<>> is None)
SourceArgs == {<<>>} \cup {<<id>> : id \in ApiNodeIds}
ThresholdArgs == {<<>>, <<0>>, <<7>>}

\* arguments of aggregate_insights
AggInputs ==
    { <<>>,
      <<[agent_type |-> "text_agent",
         results |-> <<[insights |-> <<<<"i1">>>>, confidence |-> <<8>>]>>],
        [agent_type |-> "vision_agent",
         results |-> <<[insights |-> <<<<"i2", "i3">>>>, confidence |-> <<5>>]>>]>>,
      <<[agent_type |-> "text_agent",
         results |-> <<[insights |-> <<>>, confidence |-> <<8>>]>>]>>,
      <<[agent_type |-> "video_agent",
         results |-> <<[insights |-> <<<<"i4">>>>, confidence |-> <<>>],
                       [insights |-> <<<<>>>>, confidence |-> <<4>>]>>],
        [agent_type |-> "text_agent", results |-> <<>>]>> }

AgentInit ==
    /\ NoSystems
    /\ config \in Configs
    /\ insights_cache = <<>>
    /\ pc = "Idle"
    /\ frame = NoFrame
    /\ knowledge_graph = EmptyGraph
    /\ graphOps = 0
    /\ buildCount = 0
    /\ lastOp = [op |-> "init"]
    /\ returned = [raised |-> "none"]
    /\ memory_capacity = 1
    /\ experience_memory = <<>>
    /\ total_experiences = 0
    /\ successful_predictions = 0
    /\ failed_predictions = 0
    /\ clock = 0
    /\ pruneCount = 0
    /\ idLog = <<>>

\* analyze_market is entered (line 257)
AnalyzeMarketCall ==
    /\ pc = "Idle"
    /\ buildCount < MaxAnalyses
    /\ \E market_data \in CycleData :
          /\ frame' = [market_data |-> market_data, priorities |-> <<>>,
                       cache_len |-> Len(insights_cache)]
          /\ lastOp' = [op |-> "analyze_market", market_data |-> market_data]
    /\ pc' = "BuildingGraph"
    /\ returned' = <<>>
    /\ UNCHANGED <<memVars, instVars, graphVars, config, insights_cache>>

\* self.build_knowledge_graph(market_data) (line 260); an exception ends
\* the call
AnalyzeBuild ==
    /\ pc = "BuildingGraph"
    /\ LET r == BuildKnowledgeGraph(knowledge_graph, frame.market_data)
       IN  /\ knowledge_graph' = r.graph
           /\ IF r.raised = "none"
              THEN /\ pc' = "Prioritizing"
                   /\ UNCHANGED <<frame, returned>>
              ELSE /\ pc' = "Idle"
                   /\ frame' = NoFrame
                   /\ returned' = [raised |-> r.raised]
    /\ buildCount' = buildCount + 1
    /\ UNCHANGED <<memVars, instVars, graphOps, config, insights_cache, lastOp>>

\* priorities = self.prioritize_data_sources() (line 263)
AnalyzePrioritize ==
    /\ pc = "Prioritizing"
    /\ LET r == PrioritizeDataSources(knowledge_graph, config, <<>>, <<>>)
       IN  IF r.raised = "none"
           THEN /\ pc' = "Delegating"
                /\ frame' = [frame EXCEPT !.priorities = r.priorities]
                /\ UNCHANGED returned
           ELSE /\ pc' = "Idle"
                /\ frame' = NoFrame
                /\ returned' = [raised |-> r.raised]
    /\ UNCHANGED <<memVars, instVars, graphVars, config, insights_cache, lastOp>>

\* tasks = self.delegate_to_sub_agents(priorities), the result dict is
\* built and returned (lines 266-283)
AnalyzeDelegate ==
    /\ pc = "Delegating"
    /\ LET r == DelegateToSubAgents(knowledge_graph, frame.priorities)
       IN  returned' = IF r.raised = "none"
                       THEN AnalysisResult(knowledge_graph, frame.priorities,
                                           r.tasks)
                       ELSE [raised |-> r.raised]
    /\ pc' = "Idle"
    /\ frame' = NoFrame
    /\ UNCHANGED <<memVars, instVars, graphVars, config, insights_cache, lastOp>>

CallPrioritizeDataSources ==
    /\ AfterChange
    /\ \E source_node \in SourceArgs, threshold \in ThresholdArgs :
          /\ returned' = PrioritizeDataSources(knowledge_graph, config,
                                               source_node, threshold)
          /\ lastOp' = [op |-> "prioritize_data_sources",
                        source_node |-> source_node, threshold |-> threshold]
    /\ UNCHANGED <<memVars, instVars, graphVars, agentVars>>

CallAggregateInsights ==
    /\ pc = "Idle"
    /\ Len(insights_cache) < MaxAggregates
    /\ \E sub_agent_results \in AggInputs :
          LET r == AggregateInsights(insights_cache, sub_agent_results)
          IN  /\ insights_cache' = r.cache
              /\ returned' = [raised |-> "none", aggregated |-> r.aggregated]
              /\ lastOp' = [op |-> "aggregate_insights",
                            sub_agent_results |-> sub_agent_results]
    /\ UNCHANGED <<memVars, instVars, graphVars, config, pc, frame>>

AgentNext ==
    \/ AnalyzeMarketCall
    \/ AnalyzeBuild
    \/ AnalyzePrioritize
    \/ AnalyzeDelegate
    \/ CallComputeSssp
    \/ CallGetPriorityNodes
    \/ CallPrioritizeDataSources
    \/ CallAggregateInsights

AgentSpec == AgentInit /\ [][AgentNext]_vars

----------------------------------------------------------------------------
(* Learning on one LifelongLearningSystem object: store_experience,        *)
(* learn_from_batch and import_knowledge of a learning history             *)

MaxCalls == 5      \* calls made on the objects of a behaviour

\* learning_rate of the configuration: 0.01 (the default), 0.1, 0.001
LearningRates ==
    { [num |-> 1, den |-> 100], [num |-> 1, den |-> 10],
      [num |-> 1, den |-> 1000] }

\* n experiences of reward r (in halves), the k-th with the action type
\* types[k mod Len(types)]
BatchOf(n, r, types) ==
    [k \in 1..n |-> [reward |-> r, action |-> <<types[(k % Len(types)) + 1]>>]]

\* the lists given to learn_from_batch: none; a gain, a loss and a gain
\* without action type; five losses of one type; six losses of one type
\* and a gain; six losses of each of three types
LearnBatches ==
    { <<>>,
      <<[reward |-> 2, action |-> <<"buy">>],
        [reward |-> -2, action |-> <<"sell">>],
        [reward |-> 1, action |-> <<>>]>>,
      BatchOf(5, -2, <<"hold">>),
      BatchOf(6, -2, <<"hold">>) \o <<[reward |-> 2, action |-> <<"buy">>]>>,
      BatchOf(18, -2, <<"hold", "sell", "buy">>) }

\* learn_from_batch arguments: <<>> is None, <<b>> the list b
BatchArgs == {<<>>} \cup { <<b>> : b \in LearnBatches }

\* learning histories given to import_knowledge: events of no update, with
\* and without the learning_updates key
ImportedHistories ==
    { <<[learning_updates |-> 0], [batch_size |-> 1],
        [learning_updates |-> 0], [batch_size |-> 1]>>,
      <<[learning_updates |-> 4], [learning_updates |-> 0]>> }

\* the other parts of the program stay as constructed
RestIdle ==
    /\ memory_capacity = 1
    /\ experience_memory = <<>>
    /\ total_experiences = 0
    /\ successful_predictions = 0
    /\ failed_predictions = 0
    /\ clock = 0
    /\ pruneCount = 0
    /\ idLog = <<>>
    /\ knowledge_graph = EmptyGraph
    /\ graphOps = 0
    /\ buildCount = 0
    /\ config = DefaultConfig
    /\ insights_cache = <<>>
    /\ pc = "Idle"
    /\ frame = NoFrame

LearnInit ==
    /\ \E rate \in LearningRates :
          systems = [x \in {"A"} |-> NewSystem(MaxCap, rate, 1)]
    /\ metrics_objects = <<NewMetrics>>
    /\ calls = 0
    /\ lastOp = [op |-> "init"]
    /\ returned = <<>>
    /\ RestIdle

\* x.store_experience({'reward': reward}); every call of a behaviour falls
\* within the same hour
ObjStore(x, reward) ==
    /\ calls < MaxCalls
    /\ LET sys == systems[x]
           ref == sys.performance_metrics
       IN  /\ systems' = [systems EXCEPT ![x].experience_memory =
                              StoreMemory(@, sys.memory_capacity, reward,
                                          0, calls)]
           /\ metrics_objects' = [metrics_objects EXCEPT ![ref] =
                                      StoreMetrics(@, reward)]
    /\ calls' = calls + 1
    /\ lastOp' = [op |-> "obj_store", on |-> x, reward |-> reward]
    /\ returned' = <<>>
    /\ UNCHANGED <<memVars, graphVars, agentVars>>

\* x.learn_from_batch(batch)
ObjLearn(x, batch_arg) ==
    /\ calls < MaxCalls
    /\ \E batch \in (IF batch_arg = <<>>
                     THEN ExperienceReplayResults(systems[x].experience_memory, 0)
                     ELSE {batch_arg[1]}) :
          LET done == LearnFromBatch(systems[x], batch)
          IN  /\ systems' = [systems EXCEPT ![x] = done.sys]
              /\ returned' = done.result
    /\ calls' = calls + 1
    /\ lastOp' = [op |-> "learn", on |-> x, batch |-> batch_arg]
    /\ UNCHANGED <<memVars, graphVars, agentVars, metrics_objects>>

\* x.import_knowledge(knowledge)
ObjImport(x, knowledge) ==
    /\ calls < MaxCalls
    /\ systems' = [systems EXCEPT ![x] = ImportKnowledge(@, knowledge)]
    /\ calls' = calls + 1
    /\ lastOp' = [op |-> "import", on |-> x, knowledge |-> knowledge]
    /\ returned' = <<>>
    /\ UNCHANGED <<memVars, graphVars, agentVars, metrics_objects>>

LearnStore == \E x \in DOMAIN systems : ObjStore(x, 2)

Learn == \E x \in DOMAIN systems, batch_arg \in BatchArgs : ObjLearn(x, batch_arg)

ImportHistory ==
    \E x \in DOMAIN systems, history \in ImportedHistories :
        /\ systems[x].imports = 0
        /\ ObjImport(x, [learning_history |-> history])

LearnNext == LearnStore \/ Learn \/ ImportHistory

LearnSpec == LearnInit /\ [][LearnNext]_vars

----------------------------------------------------------------------------
(* Two LifelongLearningSystem objects and knowledge passed between them *)

\* memory_capacity of the two objects
TransferCapacities == {1, 3}

TransferInit ==
    /\ \E ca, cb \in TransferCapacities :
          systems = [x \in {"A", "B"} |->
                        NewSystem(IF x = "A" THEN ca ELSE cb,
                                  [num |-> 1, den |-> 100],
                                  IF x = "A" THEN 1 ELSE 2)]
    /\ metrics_objects = <<NewMetrics, NewMetrics>>
    /\ calls = 0
    /\ lastOp = [op |-> "init"]
    /\ returned = <<>>
    /\ RestIdle

TransferStore ==
    \E x \in DOMAIN systems, reward \in {-2, 2} : ObjStore(x, reward)

\* y.import_knowledge(x.export_knowledge())
Transfer ==
    \E x, y \in DOMAIN systems :
        /\ x # y
        /\ calls < MaxCalls
        /\ \E knowledge \in ExportKnowledge(systems[x]) :
              systems' = [systems EXCEPT ![y] = ImportKnowledge(@, knowledge)]
        /\ calls' = calls + 1
        /\ lastOp' = [op |-> "transfer", from |-> x, to |-> y]
        /\ returned' = <<>>
        /\ UNCHANGED <<memVars, graphVars, agentVars, metrics_objects>>

TransferNext == TransferStore \/ Transfer

TransferSpec == TransferInit /\ [][TransferNext]_vars

----------------------------------------------------------------------------
(* Claims about the experience memory *)

\* floor(capacity * 0.8), as the specification states the retained size
FloorEightTenths(capacity) == (capacity * 8) \div 10

\* C1: between store_experience calls the memory never holds more than
\* memory_capacity experiences.
C1_SizeWithinCapacity == Len(experience_memory) <= memory_capacity

\* a pruning pass has run and more experiences were stored than fit
C1_Witness ==
    /\ pruneCount >= 1
    /\ total_experiences > memory_capacity + 1
    /\ Len(experience_memory) <= memory_capacity

\* C2: from an empty memory, the first capacity stores run no pruning pass,
\* the (capacity+1)-th runs exactly one, and the memory then holds
\* floor(capacity*0.8) experiences.
C2_PruneOnceAtCapacityPlusOne ==
    /\ total_experiences <= memory_capacity =>
          /\ pruneCount = 0
          /\ Len(experience_memory) = total_experiences
    /\ total_experiences = memory_capacity + 1 =>
          /\ pruneCount = 1
          /\ Len(experience_memory) = FloorEightTenths(memory_capacity)

\* capacity 10: after the 11th insert the memory holds 8
C2_Witness ==
    /\ memory_capacity = ScenarioCap
    /\ total_experiences = memory_capacity + 1
    /\ pruneCount = 1
    /\ Len(experience_memory) = FloorEightTenths(ScenarioCap)

\* a step that is a store_experience call
IsStoreStep == Len(idLog') = Len(idLog) + 1

\* C3: successful + failed = total in every state; no counter ever
\* decreases; a store adds 1 to total and 1 to exactly one of the other
\* two, to successful iff the reward is > 0.
C3_CountersConsistent ==
    /\ [](successful_predictions + failed_predictions = total_experiences)
    /\ [][ /\ total_experiences' >= total_experiences
           /\ successful_predictions' >= successful_predictions
           /\ failed_predictions' >= failed_predictions
           /\ IsStoreStep =>
                /\ total_experiences' = total_experiences + 1
                /\ IF lastOp'.reward > 0
                   THEN /\ successful_predictions' = successful_predictions + 1
                        /\ failed_predictions' = failed_predictions
                   ELSE /\ failed_predictions' = failed_predictions + 1
                        /\ successful_predictions' = successful_predictions
         ]_vars

\* both kinds of outcome were counted and a pruning pass has run
C3_Witness ==
    /\ pruneCount >= 1
    /\ successful_predictions >= 1
    /\ failed_predictions >= 1
    /\ Len(experience_memory) < total_experiences

\* C4: every id store_experience assigns is strictly greater than every id
\* it assigned before, so no two experiences in memory share an id.
C4_IdsStrictlyIncreasing ==
    /\ \A i, j \in DOMAIN idLog : i < j => idLog[i] < idLog[j]
    /\ \A i, j \in DOMAIN experience_memory :
          i # j => experience_memory[i].id # experience_memory[j].id

\* C5: experience_replay(b) on n experiences returns <<>> when n = 0, the
\* whole memory in order when b >= n, and for 1 <= b < n exactly b
\* experiences of the memory, none of them twice.
C5_ReplayBatch ==
    lastOp.op = "replay" =>
        LET n == Len(experience_memory)
            b == lastOp.batch_size
        IN  /\ n = 0 => returned = <<>>
            /\ (b >= 1 /\ b >= n) => returned = experience_memory
            /\ (1 <= b /\ b < n) =>
                  /\ Len(returned) = b
                  /\ \A k \in DOMAIN returned :
                        \E i \in DOMAIN experience_memory :
                            returned[k] = experience_memory[i]
                  /\ \A k, m \in DOMAIN returned :
                        k # m => returned[k].uid # returned[m].uid

\* a batch of at least two, smaller than the memory, was returned
C5_Witness ==
    /\ lastOp.op = "replay"
    /\ lastOp.batch_size >= 2
    /\ lastOp.batch_size < Len(experience_memory)
    /\ Len(returned) = lastOp.batch_size

----------------------------------------------------------------------------
(* Claims about the knowledge graph *)

NonNegativeWeights(g) == \A e \in EdgeSet(g) : e.weight >= 0

\* Least total weight of a directed path from the source, by rounds of
\* relaxing every edge: after k rounds prev maps every node that a path of
\* at most k edges reaches to the least weight of such a path.
RelaxAllEdges(g, prev) ==
    LET edges == {e \in EdgeSet(g) : e.source \in DOMAIN prev}
        cand(v) == {prev[e.source] + e.weight : e \in {x \in edges : x.target = v}}
                   \cup (IF v \in DOMAIN prev THEN {prev[v]} ELSE {})
    IN  [v \in DOMAIN prev \cup {e.target : e \in edges} |->
           LET c == cand(v)
           IN  CHOOSE m \in c : \A x \in c : m <= x]

RECURSIVE MinPathWeight(_, _, _)
MinPathWeight(g, prev, rounds) ==
    IF rounds = 0 THEN prev
    ELSE MinPathWeight(g, RelaxAllEdges(g, prev), rounds - 1)

ShortestDistance(g, source) ==
    MinPathWeight(g, (source :> 0), Cardinality(NodeSet(g)))

\* C6: on a graph with non-negative weights and a source in it,
\* compute_sssp returns exactly the nodes that have a directed path from
\* the source, each with the least total weight of such a path; the source
\* maps to 0 and every distance is >= 0.
C6_ShortestPathDistances ==
    (/\ lastOp.op = "compute_sssp"
     /\ NonNegativeWeights(knowledge_graph)
     /\ lastOp.source_node \in NodeSet(knowledge_graph)) =>
        LET ref == ShortestDistance(knowledge_graph, lastOp.source_node)
            distances == returned.distances
        IN  /\ returned.raised = "none"
            /\ \A v \in NodeSet(knowledge_graph) :
                 (v \in DOMAIN ref) <=> (v \in DistNodes(distances))
            /\ \A i \in DOMAIN distances :
                 /\ distances[i].d = ref[distances[i].node]
                 /\ distances[i].d >= 0
            /\ \A i, j \in DOMAIN distances :
                 i # j => distances[i].node # distances[j].node
            /\ DistValue(distances, lastOp.source_node) = 0

\* a node is reached more cheaply through another node than by its direct
\* edge from the source
C6_Witness ==
    /\ lastOp.op = "compute_sssp"
    /\ NonNegativeWeights(knowledge_graph)
    /\ returned.raised = "none"
    /\ \E e \in EdgeSet(knowledge_graph) :
         /\ e.source = lastOp.source_node
         /\ e.target \in DistNodes(returned.distances)
         /\ DistValue(returned.distances, e.target) < e.weight

\* 0 <= score <= 1
InUnitInterval(score) == 0 <= score.num /\ score.num <= score.den

\* C7: on a graph with non-negative weights every score get_priority_nodes
\* returns lies in [0,1], and so does every task priority
\* delegate_to_sub_agents makes of the returned list.
C7_ScoresInUnitInterval ==
    NonNegativeWeights(knowledge_graph) =>
        /\ (lastOp.op = "get_priority_nodes" /\ returned.raised = "none") =>
              \A i \in DOMAIN returned.priorities :
                  InUnitInterval(returned.priorities[i].score)
        /\ (lastOp.op = "delegate_to_sub_agents" /\ returned.raised = "none") =>
              \A c \in DOMAIN returned.tasks :
                  \A i \in DOMAIN returned.tasks[c] :
                      InUnitInterval(returned.tasks[c][i].priority)

\* a task was delegated with a priority strictly between 0 and 1
C7_Witness ==
    /\ NonNegativeWeights(knowledge_graph)
    /\ lastOp.op = "delegate_to_sub_agents"
    /\ returned.raised = "none"
    /\ \E c \in DOMAIN returned.tasks :
         \E i \in DOMAIN returned.tasks[c] :
            LET pr == returned.tasks[c][i].priority
            IN  0 < pr.num /\ pr.num < pr.den

\* the graph of the scenario: root R, stock S (1.0), news N (1.5), N -> S (0.5)
ScenarioGraphEdges ==
    {[source |-> "market_analysis", target |-> "stock_A", weight |-> 2,
      relationship |-> "related"],
     [source |-> "market_analysis", target |-> "news_0", weight |-> 3,
      relationship |-> "related"],
     [source |-> "news_0", target |-> "stock_A", weight |-> 1,
      relationship |-> "mentions"]}

\* the order-reversal of C8 for the list a get_priority_nodes call returned
OrderReversing(g, source_node, priorities) ==
    LET distances == ComputeSssp(g, source_node).distances
        d(v) == DistValue(distances, v)
        others == DistNodes(distances) \ {source_node}
    IN  /\ \A i, j \in DOMAIN priorities :
             d(priorities[i].node) < d(priorities[j].node) =>
                 ScoreGreater(priorities[i].score, priorities[j].score)
        /\ priorities # <<>> =>
             \A v \in others : d(priorities[1].node) <= d(v)

\* C8: among the nodes get_priority_nodes returns, a strictly smaller
\* distance means a strictly higher score, and the first returned node is
\* at the least distance of all non-source reachable nodes; in the R, S, N
\* scenario S is at distance 1.0 and scores higher than N.
C8_OrderReversingInDistance ==
    (lastOp.op = "get_priority_nodes" /\ returned.raised = "none") =>
        /\ OrderReversing(knowledge_graph, lastOp.source_node,
                          returned.priorities)
        /\ (/\ EdgeSet(knowledge_graph) = ScenarioGraphEdges
            /\ lastOp.source_node = "market_analysis"
            /\ lastOp.threshold = 0
            /\ lastOp.max_nodes = <<>>) =>
              /\ DistValue(ComputeSssp(knowledge_graph,
                     "market_analysis").distances, "stock_A") = 2
              /\ returned.priorities =
                   << [node |-> "stock_A", score |-> [num |-> 1, den |-> 3]],
                      [node |-> "news_0", score |-> [num |-> 0, den |-> 3]] >>

\* the same order-reversal on the graphs whose weights are all >= 0
C8_OnNonNegativeGraphs ==
    NonNegativeWeights(knowledge_graph) => C8_OrderReversingInDistance

\* C9: add_edge with an endpoint that was never given to add_node raises
\* the unknown-node error and leaves the graph as it was, so every edge
\* endpoint has an entry in node_metadata.
C9_AddEdgeRejectsUnknownNodes ==
    /\ [][ (/\ lastOp'.op = "add_edge"
            /\ graphOps' = graphOps + 1
            /\ \/ lastOp'.source \notin MetaIds(knowledge_graph)
               \/ lastOp'.target \notin MetaIds(knowledge_graph)) =>
              /\ returned'.raised = "unknown_node"
              /\ knowledge_graph' = knowledge_graph ]_vars
    /\ [](\A e \in EdgeSet(knowledge_graph) :
             /\ e.source \in MetaIds(knowledge_graph)
             /\ e.target \in MetaIds(knowledge_graph))

\* C10: add_edge with a negative weight fails and adds nothing, and
\* build_knowledge_graph inserts no negative weight, so every edge of every
\* reachable graph has weight >= 0.
C10_NoNegativeEdgeWeights ==
    /\ NonNegativeWeights(knowledge_graph)
    /\ (lastOp.op = "add_edge" /\ lastOp.weight < 0) =>
          returned.raised = "invalid_weight"

----------------------------------------------------------------------------
(* Claims about node kinds, routing and graph construction *)

\* C11: the kind recorded for a node id is the kind it was given when the
\* id was first added, whatever add_node and build_knowledge_graph calls
\* followed.
C11_KindImmutable ==
    \A i \in DOMAIN knowledge_graph.first :
        GetNodeInfo(knowledge_graph, knowledge_graph.first[i].id).type =
            knowledge_graph.first[i].type

Categories == {"text_agent", "vision_agent", "video_agent"}

\* the node ids of the tasks delegated to category c
TaskNodes(tasks, c) == {tasks[c][i].node_id : i \in DOMAIN tasks[c]}

\* the kind node_metadata records for a node
KindOf(g, node_id) == GetNodeInfo(g, node_id).type

\* the one category the specification routes a kind to
RoutedOnlyTo(tasks, node_id, c) ==
    /\ node_id \in TaskNodes(tasks, c)
    /\ \A other \in Categories \ {c} : node_id \notin TaskNodes(tasks, other)

DelegateReturned ==
    /\ lastOp.op = "delegate_to_sub_agents"
    /\ returned.raised = "none"

\* C13: delegate_to_sub_agents puts every prioritized stock or news node
\* into the text list only, every chart node into the vision list only,
\* every video node into the video list only, and no node id into two
\* lists.
C13_RoutedByKind ==
    DelegateReturned =>
        /\ \A i \in DOMAIN lastOp.prioritized_nodes :
              LET node_id == lastOp.prioritized_nodes[i].node
                  kind == KindOf(knowledge_graph, node_id)
              IN  /\ kind \in {"stock", "news"} =>
                        RoutedOnlyTo(returned.tasks, node_id, "text_agent")
                  /\ kind = "chart" =>
                        RoutedOnlyTo(returned.tasks, node_id, "vision_agent")
                  /\ kind = "video" =>
                        RoutedOnlyTo(returned.tasks, node_id, "video_agent")
        /\ \A c, d \in Categories :
              c # d => TaskNodes(returned.tasks, c) \cap
                         TaskNodes(returned.tasks, d) = {}

\* one delegation filled all three lists
C13_Witness ==
    /\ DelegateReturned
    /\ \A c \in Categories : returned.tasks[c] # <<>>
    /\ \E i \in DOMAIN lastOp.prioritized_nodes :
          KindOf(knowledge_graph, lastOp.prioritized_nodes[i].node) = "chart"

\* the prioritized nodes whose kind is none of stock, news, chart, video
DroppedNodes ==
    {i \in DOMAIN lastOp.prioritized_nodes :
        KindOf(knowledge_graph, lastOp.prioritized_nodes[i].node) \notin
            {"stock", "news", "chart", "video"}}

\* C14: given a prioritized node of another kind (root, say),
\* delegate_to_sub_agents does not raise, puts the node in no list and
\* reports the number of dropped nodes in its result.
C14_UnknownKindsDroppedAndCounted ==
    (/\ lastOp.op = "delegate_to_sub_agents"
     /\ \A i \in DOMAIN lastOp.prioritized_nodes :
            lastOp.prioritized_nodes[i].node \in MetaIds(knowledge_graph)
     /\ DroppedNodes # {}) =>
        /\ returned.raised = "none"
        /\ \A i \in DroppedNodes : \A c \in Categories :
              lastOp.prioritized_nodes[i].node \notin TaskNodes(returned.tasks, c)
        /\ \E key \in DOMAIN returned.tasks \ Categories :
              returned.tasks[key] = Cardinality(DroppedNodes)

\* the symbols of the well-formed entries of a stocks list
SymbolsOf(stocks) ==
    {stocks[i].symbol[1] : i \in {j \in DOMAIN stocks : stocks[j].symbol # <<>>}}

\* every news item references exactly one stock, one of the stocks list
EachNewsReferencesOneListedStock(market_data) ==
    \A i \in DOMAIN market_data.news :
        /\ Len(market_data.news[i].related_stocks) = 1
        /\ market_data.news[i].related_stocks[1] \in SymbolsOf(market_data.stocks)

\* the ids build_knowledge_graph gives the news items of a list
NewsNodeIds(news) == {NewsNodeId(i - 1) : i \in DOMAIN news}

MentionsEdges(g) == {e \in EdgeSet(g) : e.relationship = "mentions"}

\* the symbols the news items reference that are neither in the stocks
\* list nor the id of the root
UnknownReferences(market_data) ==
    {sym \in UNION {Range(market_data.news[i].related_stocks) :
                        i \in DOMAIN market_data.news} :
        /\ sym \notin SymbolsOf(market_data.stocks)
        /\ StockNodeId(sym) # TargetOf(market_data)}

\* build_knowledge_graph returned on a graph that was empty before it
BuiltFresh ==
    /\ lastOp.op = "build_knowledge_graph"
    /\ buildCount = 1
    /\ returned.raised = "none"

\* C20: a graph built from N news items, each referencing one stock of the
\* same input's stocks list, has exactly N mentions edges (weight 0.5, from
\* a news node to a stock node) and exactly N edges from the root to a news
\* node; a reference to a stock that is not in the graph adds no edge and
\* no node.
C20_MentionsEdges ==
    BuiltFresh =>
        LET market_data == lastOp.market_data
            N == Len(market_data.news)
            news_ids == NewsNodeIds(market_data.news)
        IN  /\ EachNewsReferencesOneListedStock(market_data) =>
                  /\ Cardinality(MentionsEdges(knowledge_graph)) = N
                  /\ \A e \in MentionsEdges(knowledge_graph) :
                        /\ e.weight = 1
                        /\ e.source \in news_ids
                        /\ e.target \in {StockNodeId(sym) :
                                            sym \in SymbolsOf(market_data.stocks)}
                  /\ Cardinality({e \in EdgeSet(knowledge_graph) :
                        /\ e.source = TargetOf(market_data)
                        /\ e.target \in news_ids
                        /\ e.relationship = "related"}) = N
            /\ \A sym \in UnknownReferences(market_data) :
                  /\ StockNodeId(sym) \notin NodeSet(knowledge_graph)
                  /\ \A e \in EdgeSet(knowledge_graph) :
                        e.target # StockNodeId(sym)

\* two news items were each linked to the listed stock they reference
C20_Witness ==
    /\ BuiltFresh
    /\ EachNewsReferencesOneListedStock(lastOp.market_data)
    /\ Len(lastOp.market_data.news) = 2
    /\ Cardinality(MentionsEdges(knowledge_graph)) = 2

----------------------------------------------------------------------------
(* Claims about the MasterAgent *)

\* the call asked for a source node that the graph does not hold
SourceAbsent ==
    \/ /\ lastOp.op \in {"compute_sssp", "get_priority_nodes"}
       /\ lastOp.source_node \notin NodeSet(knowledge_graph)
    \/ /\ lastOp.op = "prioritize_data_sources"
       /\ \/ /\ lastOp.source_node # <<>>
             /\ lastOp.source_node[1] \notin NodeSet(knowledge_graph)
          \/ NodeSet(knowledge_graph) = {}

\* C12: compute_sssp, get_priority_nodes and prioritize_data_sources with a
\* source node that is not in the graph (prioritize_data_sources on a graph
\* without nodes included) fail with the unknown-node error, return no
\* priority list and leave the graph unchanged.
C12_UnknownSourceRaises ==
    /\ [](SourceAbsent =>
            /\ returned.raised = "unknown_node"
            /\ lastOp.op # "compute_sssp" => returned.priorities = <<>>)
    /\ [][lastOp'.op \in {"compute_sssp", "get_priority_nodes",
                          "prioritize_data_sources"} =>
             knowledge_graph' = knowledge_graph]_vars

\* what analyze_market returns or raises on a newly constructed MasterAgent
FreshAgentResult(cfg, market_data) ==
    LET built == BuildKnowledgeGraph(EmptyGraph, market_data)
        prioritized == PrioritizeDataSources(built.graph, cfg, <<>>, <<>>)
        delegated == DelegateToSubAgents(built.graph, prioritized.priorities)
    IN  IF built.raised # "none" THEN [raised |-> built.raised]
        ELSE IF prioritized.raised # "none" THEN [raised |-> prioritized.raised]
        ELSE IF delegated.raised # "none" THEN [raised |-> delegated.raised]
        ELSE AnalysisResult(built.graph, prioritized.priorities, delegated.tasks)

AnalyzeReturned ==
    /\ pc = "Idle"
    /\ lastOp.op = "analyze_market"

\* C15: the graph is empty when a call's graph construction starts, and
\* what the call returns is what a newly constructed MasterAgent returns
\* for the same market_data.
C15_FreshGraphPerCall ==
    /\ pc = "BuildingGraph" => knowledge_graph.nodes = <<>>
    /\ AnalyzeReturned => returned = FreshAgentResult(config, lastOp.market_data)

\* the phase changes of the specification's state machine
PhaseOrder ==
    { <<"Idle", "BuildingGraph">>, <<"BuildingGraph", "Prioritizing">>,
      <<"Prioritizing", "Delegating">>, <<"Delegating", "Aggregating">>,
      <<"Aggregating", "Idle">> }

\* C16: an analyze_market call goes through Idle, BuildingGraph,
\* Prioritizing, Delegating, Aggregating, Idle in this order, skipping none
\* (a call ended by an exception goes back to Idle from where it raised).
C16_PhaseOrder ==
    [][pc' # pc =>
          \/ <<pc, pc'>> \in PhaseOrder
          \/ pc' = "Idle" /\ returned'.raised # "none"]_vars

\* the entries of a stocks list that lack the symbol
MalformedStocks(market_data) ==
    {i \in DOMAIN market_data.stocks : market_data.stocks[i].symbol = <<>>}

\* the keys of the dict analyze_market returns
ResultKeys == {"raised", "status", "graph_stats", "prioritized_nodes",
               "delegated_tasks", "tasks"}

\* C17: a stock entry without symbol does not abort the cycle: the call
\* returns a result, every well-formed item of the input is in the graph,
\* and the result carries the count of skipped items.
C17_MalformedItemsSkipped ==
    (AnalyzeReturned /\ MalformedStocks(lastOp.market_data) # {}) =>
        LET market_data == lastOp.market_data
        IN  /\ returned.raised = "none"
            /\ \A sym \in SymbolsOf(market_data.stocks) :
                  StockNodeId(sym) \in NodeSet(knowledge_graph)
            /\ NewsNodeIds(market_data.news) \subseteq NodeSet(knowledge_graph)
            /\ \E key \in DOMAIN returned \ ResultKeys :
                  returned[key] = Cardinality(MalformedStocks(market_data))

\* C18: a cycle that delegated its tasks returns only after the three
\* categories were processed and aggregated: an aggregate was appended to
\* insights_cache since the call was entered.
C18_AggregatedBeforeReturn ==
    [][(pc = "Delegating" /\ pc' = "Idle" /\ returned'.raised = "none") =>
          Len(insights_cache') > frame.cache_len]_vars

\* all results of sub_agent_results, in dict and list order
RECURSIVE AllResults(_)
AllResults(sub_agent_results) ==
    IF sub_agent_results = <<>> THEN <<>>
    ELSE Head(sub_agent_results).results \o AllResults(Tail(sub_agent_results))

\* the concatenation of the insight lists of a sequence of results
RECURSIVE ConcatInsights(_)
ConcatInsights(results) ==
    IF results = <<>> THEN <<>>
    ELSE Get(Head(results).insights, <<>>) \o ConcatInsights(Tail(results))

\* the sum of the confidences of a sequence of results
RECURSIVE SumConfidence(_)
SumConfidence(results) ==
    IF results = <<>> THEN 0
    ELSE Get(Head(results).confidence, 0) + SumConfidence(Tail(results))

\* C19: aggregate_insights returns the concatenation of the per-result
\* insight lists and confidence_score = (sum of the confidences) / (number
\* of insights), 0 without insights; each call appends its result to
\* insights_cache and no step changes the cache otherwise.
C19_AggregateInsights ==
    /\ [](lastOp.op = "aggregate_insights" =>
            LET results == AllResults(lastOp.sub_agent_results)
                insights == ConcatInsights(results)
                score == returned.aggregated.confidence_score
            IN  /\ returned.aggregated.insights = insights
                /\ score.den > 0
                /\ IF insights = <<>>
                   THEN score.num = 0
                   ELSE score.num * Len(insights) =
                            SumConfidence(results) * score.den)
    /\ [][IF lastOp'.op = "aggregate_insights"
          THEN insights_cache' = Append(insights_cache, returned'.aggregated)
          ELSE insights_cache' = insights_cache]_vars

\* a second aggregate was cached, with three insights and a confidence
\* score that is not a whole number
C19_Witness ==
    /\ lastOp.op = "aggregate_insights"
    /\ Len(insights_cache) = 2
    /\ Len(returned.aggregated.insights) = 3
    /\ returned.aggregated.confidence_score = [num |-> 13, den |-> 3]
    /\ insights_cache[2] = returned.aggregated

----------------------------------------------------------------------------
(* Claims about the priority list *)

GetPriorityNodesReturned ==
    /\ lastOp.op = "get_priority_nodes"
    /\ returned.raised = "none"

\* C21: the list get_priority_nodes returns is sorted by score in
\* non-increasing order, holds no score below the threshold and never the
\* source; with max_nodes set (0 included) it has at most max_nodes entries,
\* the first max_nodes entries of the sorted list.
C21_SortedFilteredTruncated ==
    GetPriorityNodesReturned =>
        LET result == returned.priorities
            sorted == GetPriorityNodes(knowledge_graph, lastOp.source_node,
                                       lastOp.threshold, <<>>).priorities
        IN  /\ \A i, j \in DOMAIN result :
                  i < j => ~ScoreGreater(result[j].score, result[i].score)
            /\ \A i \in DOMAIN result :
                  /\ PassesThreshold(result[i].score, lastOp.threshold)
                  /\ result[i].node # lastOp.source_node
            /\ (lastOp.max_nodes # <<>> /\ lastOp.max_nodes[1] >= 0) =>
                  /\ Len(result) <= lastOp.max_nodes[1]
                  /\ result = SubSeq(sorted, 1, Len(result))

\* the nodes compute_sssp reaches at the greatest distance
FarthestNodes(distances) ==
    {distances[i].node : i \in {j \in DOMAIN distances :
                                   distances[j].d = MaxDistance(distances)}}

\* C30: when the greatest distance is positive, a node at that distance
\* scores exactly 0 and is in no list asked for with a threshold > 0 (a
\* root with one item at positive distance gives the empty list under the
\* default threshold 0.3); when the greatest distance is 0 every node of
\* the list scores 1.0.
C30_FarthestNodesScoreZero ==
    /\ GetPriorityNodesReturned =>
        LET distances == ComputeSssp(knowledge_graph, lastOp.source_node).distances
            result == returned.priorities
        IN  IF MaxDistance(distances) > 0
            THEN /\ \A i \in DOMAIN result :
                       result[i].node \in FarthestNodes(distances) =>
                           /\ result[i].score.num = 0
                           /\ lastOp.threshold = 0
                 /\ (Len(distances) = 2 /\ lastOp.threshold = SSSP_PRIORITY_THRESHOLD)
                        => result = <<>>
            ELSE \A i \in DOMAIN result : result[i].score.num = result[i].score.den
    /\ (DelegateReturned /\ lastOp.prioritized_nodes = <<>>) =>
          \A c \in Categories : returned.tasks[c] = <<>>

\* the one item of a root, at positive distance, was left out under the
\* default threshold
C30_Witness ==
    /\ GetPriorityNodesReturned
    /\ lastOp.threshold = SSSP_PRIORITY_THRESHOLD
    /\ lastOp.max_nodes = <<>>
    /\ LET distances == ComputeSssp(knowledge_graph, lastOp.source_node).distances
       IN  /\ Len(distances) = 2
           /\ MaxDistance(distances) > 0
    /\ returned.priorities = <<>>

----------------------------------------------------------------------------
(* Claims about pruning and replay order *)

\* importance = 0.6*|reward| + 0.4/(1 + age in hours), in twentieths of
\* 1/(1 + age): a is at least as important as b at time now
AtLeastAsImportant(a, b, now) ==
    LET na == 3 * Abs(a.reward) * (1 + now - a.timestamp) + 4
        nb == 3 * Abs(b.reward) * (1 + now - b.timestamp) + 4
    IN  na * (1 + now - b.timestamp) >= nb * (1 + now - a.timestamp)

\* C22: a pruning pass keeps exactly floor(capacity*0.8) experiences, each
\* of them at least as important as every experience it discards.
C22_PruneKeepsMostImportant ==
    [][pruneCount' = pruneCount + 1 =>
          LET before == Append(experience_memory,
                               NewExperience(experience_memory, lastOp'.reward,
                                             clock', total_experiences))
              kept == Range(experience_memory')
              discarded == Range(before) \ kept
          IN  /\ Len(experience_memory') = FloorEightTenths(memory_capacity)
              /\ Cardinality(kept) = Len(experience_memory')
              /\ kept \subseteq Range(before)
              /\ \A k \in kept : \A d \in discarded :
                    AtLeastAsImportant(k, d, clock')]_vars

\* not FIFO: an experience stored after one that is still kept is gone
C22_Witness ==
    /\ pruneCount >= 1
    /\ \E i \in DOMAIN experience_memory :
          \E later \in 0..(total_experiences - 1) :
              /\ later > experience_memory[i].uid
              /\ \A j \in DOMAIN experience_memory :
                    experience_memory[j].uid # later

\* priority = index/n + max(0, reward): experience i comes before
\* experience j in the ranking, the earlier-inserted one first on a tie
RanksBefore(mem, i, j) ==
    LET n == Len(mem)
        pi == 2 * (i - 1) + n * (IF mem[i].reward > 0 THEN mem[i].reward ELSE 0)
        pj == 2 * (j - 1) + n * (IF mem[j].reward > 0 THEN mem[j].reward ELSE 0)
    IN  pi > pj \/ (pi = pj /\ i < j)

\* the h experiences of highest priority
TopGroup(mem, h) ==
    {mem[i] : i \in {k \in DOMAIN mem :
        Cardinality({j \in DOMAIN mem : RanksBefore(mem, j, k)}) < h}}

----------------------------------------------------------------------------
(* Claims about repeated analysis cycles *)

\* what prioritization gives when it starts from the root of the call's
\* own target
PrioritiesFromOwnRoot(g, cfg, market_data) ==
    PrioritizeDataSources(g, cfg, <<TargetOf(market_data)>>, <<>>)

\* C26: in a second analyze_market call on the same MasterAgent
\* prioritization starts from the root created for that call's target:
\* the call delegates what the priority list from that root holds.
C26_SecondCallStartsFromItsRoot ==
    (AnalyzeReturned /\ buildCount >= 2 /\ returned.raised = "none") =>
        LET own == PrioritiesFromOwnRoot(knowledge_graph, config,
                                         lastOp.market_data)
        IN  /\ own.raised = "none"
            /\ returned.prioritized_nodes = Len(own.priorities)
            /\ returned.tasks =
                  DelegateToSubAgents(knowledge_graph, own.priorities).tasks

----------------------------------------------------------------------------
(* Claims about learning from batches *)

\* a learn_from_batch call on object x has just returned
LearnStep(x) ==
    /\ calls' = calls + 1
    /\ lastOp'.op = "learn"
    /\ lastOp'.on = x

\* the batches the call can have worked on
BatchesOf(x) ==
    IF lastOp'.batch = <<>>
    THEN ExperienceReplayResults(systems[x].experience_memory, 0)
    ELSE {lastOp'.batch[1]}

StrategiesIn(batch) == { StrategyOf(batch[i]) : i \in DOMAIN batch }
ItemsOf(batch, s) == { i \in DOMAIN batch : StrategyOf(batch[i]) = s }
RECURSIVE RewardSum(_, _)
RewardSum(batch, s) ==
    IF batch = <<>> THEN 0
    ELSE (IF StrategyOf(Head(batch)) = s THEN Head(batch).reward ELSE 0)
         + RewardSum(Tail(batch), s)
GainsOf(batch, s) == { i \in ItemsOf(batch, s) : batch[i].reward > 0 }

\* the average reward of s in the batch is at least that of t
AverageAtLeast(batch, s, t) ==
    RewardSum(batch, s) * Cardinality(ItemsOf(batch, t))
        >= RewardSum(batch, t) * Cardinality(ItemsOf(batch, s))

\* success rate below 0.3 on more than 5 experiences
RarelySucceeds(batch, s) ==
    /\ 10 * Cardinality(GainsOf(batch, s)) < 3 * Cardinality(ItemsOf(batch, s))
    /\ Cardinality(ItemsOf(batch, s)) > 5

UpdatesOfType(updates, type) == { i \in DOMAIN updates : updates[i].type = type }

\* C24: learn_from_batch on a non-empty batch returns exactly one prioritize
\* update, for a strategy of maximal average reward in the batch, and one
\* deprioritize update for each strategy with success rate < 0.3 and count
\* > 5 and for no other; learning_updates is the number of updates and the
\* event returned is appended to learning_history.  On an empty batch it
\* returns status no_experiences with 0 updates and appends nothing.
C24_LearnFromBatch ==
    [][\A x \in DOMAIN systems :
         LearnStep(x) =>
           \E batch \in BatchesOf(x) :
             IF batch = <<>>
             THEN /\ returned' = [status |-> "no_experiences",
                                  learning_updates |-> 0]
                  /\ systems'[x].learning_history = systems[x].learning_history
             ELSE LET updates == returned'.strategy_updates
                      best == UpdatesOfType(updates, "prioritize_strategy")
                      worst == UpdatesOfType(updates, "deprioritize_strategy")
                  IN  /\ Cardinality(best) = 1
                      /\ \A i \in best :
                            /\ updates[i].strategy \in StrategiesIn(batch)
                            /\ \A t \in StrategiesIn(batch) :
                                  AverageAtLeast(batch, updates[i].strategy, t)
                      /\ best \cup worst = DOMAIN updates
                      /\ { updates[i].strategy : i \in worst }
                            = { s \in StrategiesIn(batch) : RarelySucceeds(batch, s) }
                      /\ \A i, j \in worst :
                            updates[i].strategy = updates[j].strategy => i = j
                      /\ returned'.learning_updates = Len(updates)
                      /\ systems'[x].learning_history
                            = Append(systems[x].learning_history, returned')
      ]_vars

\* a call has returned a prioritize and a deprioritize update
C24_Witness ==
    /\ lastOp.op = "learn"
    /\ "strategy_updates" \in DOMAIN returned
    /\ returned.learning_updates = 2
    /\ returned.strategy_updates[2].type = "deprioritize_strategy"
    /\ Len(systems["A"].learning_history) >= 2

\* an adaptation: a learn_from_batch call on x that appended an event to a
\* history of at least 5 events
Adaptation(x) ==
    /\ LearnStep(x)
    /\ Len(systems'[x].learning_history) = Len(systems[x].learning_history) + 1
    /\ Len(systems'[x].learning_history) >= 5

LastFive(history) == SubSeq(history, Len(history) - 4, Len(history))

InRateRange(rate) ==
    /\ 1000 * rate.num >= rate.den
    /\ 10 * rate.num <= rate.den

----------------------------------------------------------------------------
(* Claims about knowledge passed between two objects *)

\* C27: after any sequence of store_experience and import_knowledge calls an
\* object holds at most memory_capacity experiences.
C27_ImportKeepsCapacityBound ==
    \A x \in DOMAIN systems :
        Len(systems[x].experience_memory) <= systems[x].memory_capacity

\* the performance_metrics dict of object x
MetricsOf(objects, x) == metrics_objects[objects[x].performance_metrics]

\* C28: B.import_knowledge(A.export_knowledge()) leaves B with A's
\* total_experiences, and afterwards a store_experience on one object
\* leaves the performance_metrics and the experience_memory of the other
\* unchanged.
C28_IndependentAfterImport ==
    [][\A x, y \in DOMAIN systems :
         x # y =>
           /\ (calls' = calls + 1 /\ lastOp' = [op |-> "transfer",
                                                from |-> x, to |-> y])
                 => metrics_objects'[systems'[y].performance_metrics].total_experiences
                       = MetricsOf(systems, x).total_experiences
           /\ (calls' = calls + 1 /\ lastOp'.op = "obj_store" /\ lastOp'.on = x)
                 => /\ metrics_objects'[systems'[y].performance_metrics]
                          = MetricsOf(systems, y)
                    /\ systems'[y].experience_memory = systems[y].experience_memory
      ]_vars

====
